---- MODULE Spec2Model ----
(***************************************************************************)
(* Model of src/app.py, the Streamlit page "Simulador r/R - NC".           *)
(*                                                                         *)
(* The page is a script that Streamlit runs from top to bottom each time   *)
(* a widget changes.  One action of the model is one such run: the widget  *)
(* values are read, the main calculation (section 6) is done, and the      *)
(* derived values (progress bar, transition radius, 3D viewers) are        *)
(* rebuilt.                                                                *)
(*                                                                         *)
(* Lengths are integers counting thousandths of an Angstrom, so the        *)
(* slider step 0.01 is 10 and the limits 0.155 .. 1.000 are 155 .. 1000.   *)
(* Quotients are exact fractions <<numerator, denominator>> in lowest      *)
(* terms with a positive denominator.                                      *)
(***************************************************************************)
EXTENDS Integers, Sequences, FiniteSets, TLC

VARIABLES
    radio_cation,        \* slider "Radio del Cation (r)"
    radio_anion,         \* slider "Radio del Anion (R)"
    y_max_zoom,          \* slider "Limite superior del eje Y"
    y_min_zoom,          \* slider "Limite inferior del eje Y"
    modo,                \* radio "Modo de visualizacion"
    seleccion,           \* selectbox state: 0 = untouched (default index), k = k-th NC
    relacion_r_R,        \* section 6
    nc_predicho,         \* section 6
    geometria_predicha,  \* section 6
    posicion_relativa,   \* section 8, value given to st.progress
    R_transicion,        \* section 9, r / 0.225
    nc_elegido,          \* section 10
    visores,             \* section 10, NC -> viewer built in this run
    mostrados,           \* NCs whose viewer was handed to st.components.v1.html
    resaltado,           \* whether the gold border was opened around the viewer
    memo                 \* history: at most one remembered earlier result

vars == <<radio_cation, radio_anion, y_max_zoom, y_min_zoom, modo, seleccion,
          relacion_r_R, nc_predicho, geometria_predicha, posicion_relativa,
          R_transicion, nc_elegido, visores, mostrados, resaltado, memo>>

----------------------------------------------------------------------------
(* Constants of the page *)

Milesimas == 1000

LIMITES_NC == <<155, 225, 414, 732, 1000>>
NC_TIPICOS == <<3, 4, 6, 8, 12>>
GEOMETRIAS == <<"Triangular", "Tetraedrica", "Octaedrica", "Cubica",
                "Cuboctaedrica (Compacta)">>

CationMin == 100
CationMax == 2000
CationInicial == 1000
AnionMin == 100
AnionMax == 7000
AnionInicial == 1400
PasoRadio == 10

YMaxMin == 200
YMaxMax == 2000
YMaxInicial == 1100
YMinMin == 0
YMinMax == 500
YMinInicial == 0
PasoZoom == 50

TechoEscala == 1100
LimiteTransicion == 225
R_ANION_FIJO == 1000

ModoPredicha == "Mostrar solo la estructura predicha (segun r/R)"
ModoExplorar == "Explorar (elegir NC manualmente)"
ModoComparar == "Comparar todas (3x2)"
Modos == {ModoPredicha, ModoExplorar, ModoComparar}

r_R_representativo == [nc \in {3, 4, 6, 8, 12} |->
    CASE nc = 3 -> 190 [] nc = 4 -> 300 [] nc = 6 -> 500 [] nc = 8 -> 800 [] nc = 12 -> 900]

----------------------------------------------------------------------------
(* Bounds of the model: which slider positions and which free inputs are   *)
(* explored.                                                               *)

NumCation == 2        \* the cation slider is cut into NumCation equal parts
NumAnion == 3         \* the anion slider is cut into NumAnion equal parts
NumYMax == 2          \* the upper zoom slider is cut into NumYMax equal parts
NumYMin == 1          \* the lower zoom slider is cut into NumYMin equal parts
CalcPaso == 500       \* grid of the free inputs of the calculation
CalcMaxCation == 4    \* free cation radii 0 .. CalcMaxCation * CalcPaso
CalcMaxAnion == 6     \* free anion radii -CalcPaso .. CalcMaxAnion * CalcPaso

\* every position of a slider
Posiciones(min, max, paso) == {v \in min..max : (v - min) % paso = 0}
\* its ends and the positions nearest below the cuts into n equal parts
Muestras(min, max, paso, n) ==
    {min + ((k * ((max - min) \div paso)) \div n) * paso : k \in 0..n}

\* Slider positions that put r/R exactly on, just under and between the limits.
SondaCation == {310, 450, 550, 1830}
SondaAnion == {1000, 1400, 2000, 2500}

CationValues == Muestras(CationMin, CationMax, PasoRadio, NumCation)
                  \cup (SondaCation \cap Posiciones(CationMin, CationMax, PasoRadio))
AnionValues == Muestras(AnionMin, AnionMax, PasoRadio, NumAnion)
                  \cup (SondaAnion \cap Posiciones(AnionMin, AnionMax, PasoRadio))
YMaxValues == Muestras(YMaxMin, YMaxMax, PasoZoom, NumYMax)
YMinValues == Muestras(YMinMin, YMinMax, PasoZoom, NumYMin)

\* Free inputs of the calculation: not limited to the sliders.
CalcCation == {k * CalcPaso : k \in 0..CalcMaxCation}
                 \cup {154, 155, 156, 224, 225, 226, 413, 414, 415, 731, 732, 733,
                       999, 1001, 1099, 1100, 1101}
                 \cup SondaCation \cup {CationMin, CationMax}
CalcAnion == {k * CalcPaso : k \in -1..CalcMaxAnion}
                 \cup SondaAnion \cup {AnionMin, AnionMax}

----------------------------------------------------------------------------
(* Exact arithmetic standing for Python's "/", "<" and min on floats.  On  *)
(* every input explored below the float quotient falls on the same side of  *)
(* each limit, and of the ceiling 1.1, as the exact quotient.               *)

Abs(x) == IF x < 0 THEN -x ELSE x

RECURSIVE MCD(_, _)
MCD(a, b) == IF b = 0 THEN a ELSE MCD(b, a % b)

\* n / d for d # 0
Frac(n, d) ==
    LET s == IF d < 0 THEN -1 ELSE 1
        g == MCD(Abs(n), Abs(d))
    IN  <<(s * n) \div g, (s * d) \div g>>

Menor(a, b) == a[1] * b[2] < b[1] * a[2]
MenorIgual(a, b) == a[1] * b[2] <= b[1] * a[2]
Minimo(a, b) == IF Menor(b, a) THEN b ELSE a

Cero == Frac(0, 1)
Uno == Frac(1, 1)
Limite(i) == Frac(LIMITES_NC[i], Milesimas)

----------------------------------------------------------------------------
(* Section 6: CALCULO PRINCIPAL *)

\* relacion_r_R = radio_cation / radio_anion if radio_anion > 0 else 0
RelacionSinSigno(r, R) == IF R # 0 THEN Frac(r, R) ELSE Cero
RelacionInvertida(r, R) == IF R > 0 /\ r > 0 THEN Frac(R, r) ELSE Cero
RelacionAcotada(r, R) == IF R > 0 THEN Minimo(Frac(r, R), Uno) ELSE Cero
Relacion(r, R) == IF R > 0 THEN Frac(r, R) ELSE Cero

\* if relacion_r_R < limite
CumpleConIgual(rel, i) == MenorIgual(rel, Limite(i))
Cumple(rel, i) == Menor(rel, Limite(i))

\* nc_predicho = NC_TIPICOS[-1]; with the stale variant the value of the
\* previous run is kept instead
NcPorDefectoAnterior == nc_predicho
NcPorDefecto == NC_TIPICOS[Len(NC_TIPICOS)]

\* geometria_predicha = GEOMETRIAS[-1]
GeometriaPorDefectoPrimera == GEOMETRIAS[1]
GeometriaPorDefecto == GEOMETRIAS[Len(GEOMETRIAS)]

\* for i, limite in enumerate(LIMITES_NC): if ...: ...; break
RECURSIVE Recorrer(_, _)
Recorrer(i, rel) ==
    IF i > Len(LIMITES_NC)
    THEN [nc |-> NcPorDefecto, geometria |-> GeometriaPorDefecto]
    ELSE IF Cumple(rel, i)
         THEN [nc |-> NC_TIPICOS[i], geometria |-> GEOMETRIAS[i]]
         ELSE Recorrer(i + 1, rel)

CalculoPrincipal(r, R) ==
    LET rel == Relacion(r, R)
        p == Recorrer(1, rel)
    IN  [relacion |-> rel, nc |-> p.nc, geometria |-> p.geometria]

----------------------------------------------------------------------------
(* Sections 8 and 9: derived values *)

\* posicion_relativa = min(relacion_r_R / 1.1, 1.0)
PosicionSinTope(rel) == Frac(rel[1] * Milesimas, rel[2] * TechoEscala)
PosicionRelativa(rel) == Minimo(Frac(rel[1] * Milesimas, rel[2] * TechoEscala), Uno)

\* R_transicion = radio_cation / 0.225   (in thousandths, like the radii)
RTransicion(r) == Frac(r * Milesimas, LimiteTransicion)

\* Shaded bands of the full-view plot:
\* for i, nc in enumerate(NC_TIPICOS): axhspan(0 or LIMITES_NC[i-1], LIMITES_NC[i])
FranjasVistaCompleta ==
    [i \in 1..Len(NC_TIPICOS) |->
        [y_min |-> IF i = 1 THEN 0 ELSE LIMITES_NC[i - 1],
         y_max |-> LIMITES_NC[i],
         nc |-> NC_TIPICOS[i]]]

\* Shaded bands of the zoom plot, written out one by one in the script; the
\* last one is drawn only when the upper zoom limit is above 1.0
FranjasZoom(ymax) ==
    <<[y_min |-> 155, y_max |-> 225, nc |-> 3],
      [y_min |-> 225, y_max |-> 414, nc |-> 4],
      [y_min |-> 414, y_max |-> 732, nc |-> 6],
      [y_min |-> 732, y_max |-> 1000, nc |-> 8]>>
    \o (IF ymax > 1000 THEN <<[y_min |-> 1000, y_max |-> ymax, nc |-> 12]>> ELSE <<>>)

----------------------------------------------------------------------------
(* Section 10: 3D viewers *)

\* _make_3dmol_embed_html(nc, R, r, etiqueta): the viewer is known by the NC
\* whose vertices it shows and by the two sphere radii it is drawn with
VisorRadiosCambiados(nc, R, r) == [nc |-> nc, R |-> r, r |-> R]
Visor(nc, R, r) == [nc |-> nc, R |-> R, r |-> r]

\* visores = {nc: "" for nc in NC_TIPICOS}
SinVisor == [nc |-> 0, R |-> 0, r |-> 0]
NCs == {NC_TIPICOS[i] : i \in 1..Len(NC_TIPICOS)}

\* nc_elegido: the selectbox (index = position of nc_predicho) in Explorar
\* mode, nc_predicho otherwise
NcElegido(m, sel, pred) ==
    IF m = ModoExplorar
    THEN (IF sel = 0 THEN pred ELSE NC_TIPICOS[sel])
    ELSE pred

VisoresComparar ==
    [nc \in NCs |-> Visor(nc, R_ANION_FIJO,
                          (r_R_representativo[nc] * R_ANION_FIJO) \div Milesimas)]
VisoresUnico(nc, R, r) ==
    [k \in NCs |-> IF k = nc THEN Visor(nc, R, r) ELSE SinVisor]

----------------------------------------------------------------------------
(* Section 4: normalised vertices, and the XYZ block and bonds of a viewer. *)
(* A coordinate is <<sign, n, d>>: its sign and its square n/d in lowest    *)
(* terms, which is exact for 1/2, sqrt(3)/2, 1/sqrt(3) and 1/sqrt(2).       *)

Signo(x) == IF x < 0 THEN -1 ELSE IF x = 0 THEN 0 ELSE 1

\* the coordinate s * sqrt(n / d)
Coord(s, n, d) == LET q == Frac(n, d) IN <<IF q[1] = 0 THEN 0 ELSE s, q[1], q[2]>>
Entero(c) == Coord(Signo(c), c * c, 1)

\* c / k**0.5
EntreRaiz(c, k) == Coord(c[1], c[2], c[3] * k)
\* c * dist
PorDistancia(c, dist) == Coord(c[1] * Signo(dist), c[2] * dist * dist, c[3])

Enteros(v) == <<Entero(v[1]), Entero(v[2]), Entero(v[3])>>
\* [[v[0]/k**0.5, v[1]/k**0.5, v[2]/k**0.5] for v in vs]
Normalizar(vs, k) ==
    [j \in 1..Len(vs) |->
        <<EntreRaiz(Entero(vs[j][1]), k), EntreRaiz(Entero(vs[j][2]), k),
          EntreRaiz(Entero(vs[j][3]), k)>>]

VERTICES_NC3 ==
    <<Enteros(<<1, 0, 0>>),
      <<Coord(-1, 1, 4), Coord(1, 3, 4), Entero(0)>>,
      <<Coord(-1, 1, 4), Coord(-1, 3, 4), Entero(0)>>>>

VERTICES_NC4 ==
    Normalizar(<<<<1, 1, 1>>, <<1, -1, -1>>, <<-1, 1, -1>>, <<-1, -1, 1>>>>, 3)

VERTICES_NC6 ==
    <<Enteros(<<1, 0, 0>>), Enteros(<<-1, 0, 0>>),
      Enteros(<<0, 1, 0>>), Enteros(<<0, -1, 0>>),
      Enteros(<<0, 0, 1>>), Enteros(<<0, 0, -1>>)>>

VERTICES_NC8 ==
    Normalizar(<<<<1, 1, 1>>, <<1, 1, -1>>, <<1, -1, 1>>, <<1, -1, -1>>,
                 <<-1, 1, 1>>, <<-1, 1, -1>>, <<-1, -1, 1>>, <<-1, -1, -1>>>>, 3)

\* v = [0, 0, 0]; v[i] = s1; v[(i+1)%3] = s2      (i counted from 0)
VerticeNC12MismoIndice(i, s1, s2) ==
    [k \in 1..3 |-> IF k = i + 1 THEN s2 ELSE 0]
VerticeNC12(i, s1, s2) ==
    [k \in 1..3 |-> IF k = ((i + 1) % 3) + 1 THEN s2
                    ELSE IF k = i + 1 THEN s1 ELSE 0]

\* for i in range(3): for s1 in [-1, 1]: for s2 in [-1, 1]: append
VERTICES_NC12 ==
    Normalizar([j \in 1..12 |->
                   VerticeNC12((j - 1) \div 4,
                               IF ((j - 1) \div 2) % 2 = 0 THEN -1 ELSE 1,
                               IF (j - 1) % 2 = 0 THEN -1 ELSE 1)], 2)

VerticesPorNc ==
    [nc \in {3, 4, 6, 8, 12} |->
        CASE nc = 3 -> VERTICES_NC3 [] nc = 4 -> VERTICES_NC4 [] nc = 6 -> VERTICES_NC6
          [] nc = 8 -> VERTICES_NC8 [] nc = 12 -> VERTICES_NC12]

\* _xyz_from_vertices(nc, vertices_norm, R, r): the atom count written on the
\* first line, the atom lines that follow the comment line, and the scaled
\* vertices
XyzFromVertices(nc, vertices_norm, R, r) ==
    LET dist == R + r
        vertices == [j \in 1..Len(vertices_norm) |->
                        <<PorDistancia(vertices_norm[j][1], dist),
                          PorDistancia(vertices_norm[j][2], dist),
                          PorDistancia(vertices_norm[j][3], dist)>>]
    IN  [n_atoms |-> nc + 1,
         atomos |-> <<[elem |-> "Na", pos |-> Enteros(<<0, 0, 0>>)]>>
                    \o [j \in 1..Len(vertices) |-> [elem |-> "Cl", pos |-> vertices[j]]],
         vertices |-> vertices]

\* enlaces = vertices[:6] if nc == 12 else vertices
Enlaces(nc, vertices) ==
    IF nc = 12 THEN SubSeq(vertices, 1, IF Len(vertices) < 6 THEN Len(vertices) ELSE 6)
               ELSE vertices

\* What _make_3dmol_embed_html(nc, R, r, ...) puts in the page of a viewer
Contenido(v) ==
    LET x == XyzFromVertices(v.nc, VerticesPorNc[v.nc], v.R, v.r)
    IN  [n_atoms |-> x.n_atoms, atomos |-> x.atomos,
         enlaces |-> Enlaces(v.nc, x.vertices)]

\* The r/R interval written on the label of a compare-mode viewer:
\* "0.155-0.225" for nc = 3, ">0.732" for nc = 12, and
\* f"{LIMITES_NC[idx-1]:.3f}-{LIMITES_NC[idx]:.3f}" otherwise (idx counted from 0)
IntervaloComparar(nc) ==
    LET i == CHOOSE j \in 1..Len(NC_TIPICOS) : NC_TIPICOS[j] = nc
    IN  IF nc = 3 THEN [inf |-> 155, sup |-> 225, sin_tope |-> FALSE]
        ELSE IF nc = 12 THEN [inf |-> 732, sup |-> 732, sin_tope |-> TRUE]
        ELSE [inf |-> LIMITES_NC[i - 1], sup |-> LIMITES_NC[i], sin_tope |-> FALSE]

----------------------------------------------------------------------------
(* One run of the script with the widget values r, R, ymax, ymin, m, sel *)

Ejecutar(r, R, ymax, ymin, m, sel) ==
    LET c == CalculoPrincipal(r, R)
        eleg == NcElegido(m, sel, c.nc)
    IN  /\ radio_cation' = r
        /\ radio_anion' = R
        /\ y_max_zoom' = ymax
        /\ y_min_zoom' = ymin
        /\ modo' = m
        /\ seleccion' = IF m = ModoExplorar THEN sel ELSE 0
        /\ relacion_r_R' = c.relacion
        /\ nc_predicho' = c.nc
        /\ geometria_predicha' = c.geometria
        /\ posicion_relativa' = PosicionRelativa(c.relacion)
        /\ R_transicion' = RTransicion(r)
        /\ nc_elegido' = eleg
        /\ visores' = IF m = ModoComparar THEN VisoresComparar
                                          ELSE VisoresUnico(eleg, R, r)
        /\ mostrados' = IF m = ModoComparar THEN NCs ELSE {eleg}
        /\ resaltado' = (m # ModoComparar /\ eleg = c.nc)

\* The first run: every widget at its default value.
Init ==
    LET c == CalculoPrincipal(CationInicial, AnionInicial)
    IN  /\ radio_cation = CationInicial
        /\ radio_anion = AnionInicial
        /\ y_max_zoom = YMaxInicial
        /\ y_min_zoom = YMinInicial
        /\ modo = ModoPredicha
        /\ seleccion = 0
        /\ relacion_r_R = c.relacion
        /\ nc_predicho = c.nc
        /\ geometria_predicha = c.geometria
        /\ posicion_relativa = PosicionRelativa(c.relacion)
        /\ R_transicion = RTransicion(CationInicial)
        /\ nc_elegido = c.nc
        /\ visores = VisoresUnico(c.nc, AnionInicial, CationInicial)
        /\ mostrados = {c.nc}
        /\ resaltado = TRUE
        /\ memo = {}

\* The selectbox is created with index = position of nc_predicho.  While that
\* index stays the same the widget keeps the user's choice; when it changes
\* the widget may keep the choice or fall back to its new default.
SeleccionTras(r, R) ==
    IF CalculoPrincipal(r, R).nc = nc_predicho THEN {seleccion} ELSE {seleccion, 0}

MoverCation(S) ==
    \E v \in S \ {radio_cation} : \E sel \in SeleccionTras(v, radio_anion) :
        Ejecutar(v, radio_anion, y_max_zoom, y_min_zoom, modo, sel)

MoverAnion(S) ==
    \E v \in S \ {radio_anion} : \E sel \in SeleccionTras(radio_cation, v) :
        Ejecutar(radio_cation, v, y_max_zoom, y_min_zoom, modo, sel)

MoverYMax(S) ==
    \E v \in S \ {y_max_zoom} :
        Ejecutar(radio_cation, radio_anion, v, y_min_zoom, modo, seleccion)

MoverYMin(S) ==
    \E v \in S \ {y_min_zoom} :
        Ejecutar(radio_cation, radio_anion, y_max_zoom, v, modo, seleccion)

\* The button assigns the two local names and calls st.rerun(): the run is
\* abandoned and the script starts again, where both sliders return the values
\* they hold and the button returns False.
RestablecerZoom ==
    Ejecutar(radio_cation, radio_anion, y_max_zoom, y_min_zoom, modo, seleccion)

CambiarModo ==
    \E m \in Modos \ {modo} :
        Ejecutar(radio_cation, radio_anion, y_max_zoom, y_min_zoom, m, 0)

ElegirNC ==
    /\ modo = ModoExplorar
    /\ \E k \in 1..Len(NC_TIPICOS) :
        Ejecutar(radio_cation, radio_anion, y_max_zoom, y_min_zoom, modo, k)

Next ==
    \/ MoverCation(CationValues) /\ UNCHANGED memo
    \/ MoverAnion(AnionValues) /\ UNCHANGED memo
    \/ MoverYMax(YMaxValues) /\ UNCHANGED memo
    \/ MoverYMin(YMinValues) /\ UNCHANGED memo
    \/ RestablecerZoom /\ UNCHANGED memo
    \/ CambiarModo /\ UNCHANGED memo
    \/ ElegirNC /\ UNCHANGED memo

Spec == Init /\ [][Next]_vars

----------------------------------------------------------------------------
(* The calculation as a function of free inputs, sliders aside *)

Calcular ==
    \E r \in CalcCation, R \in CalcAnion :
        /\ Ejecutar(r, R, y_max_zoom, y_min_zoom, modo, seleccion)
        /\ UNCHANGED memo

NextCalc == Calcular

SpecCalc == Init /\ [][NextCalc]_vars

----------------------------------------------------------------------------
(* The page with one earlier result remembered: after any run the result   *)
(* just shown may be noted down, replacing the one noted before.           *)

Resultado ==
    [r |-> radio_cation, R |-> radio_anion, predicha |-> (modo = ModoPredicha),
     relacion |-> relacion_r_R, nc |-> nc_predicho, geometria |-> geometria_predicha]

Recuerda == memo' \in {memo, {Resultado'}}

HistCation == {450, 1000, 2000}
HistAnion == {1000, 1400, 2000, 7000}
HistYMax == {YMaxInicial, YMaxMax}
HistYMin == {YMinInicial, YMinMax}

NextHist ==
    \/ MoverCation(HistCation) /\ Recuerda
    \/ MoverAnion(HistAnion) /\ Recuerda
    \/ MoverYMax(HistYMax) /\ Recuerda
    \/ MoverYMin(HistYMin) /\ Recuerda
    \/ RestablecerZoom /\ Recuerda
    \/ CambiarModo /\ Recuerda
    \/ ElegirNC /\ Recuerda

SpecHist == Init /\ [][NextHist]_vars

----------------------------------------------------------------------------
(* Properties *)

Indices == 1..Len(LIMITES_NC)
Ultimo == Len(LIMITES_NC)

\* relacion_r_R is the exact quotient radio_cation / radio_anion
RelacionExacta == relacion_r_R[1] * radio_anion = radio_cation * relacion_r_R[2]

\* the limits strictly greater than the ratio
Mayores == {i \in Indices : Menor(relacion_r_R, Limite(i))}

Par(i) == nc_predicho = NC_TIPICOS[i] /\ geometria_predicha = GEOMETRIAS[i]

C2_LimiteInferior ==
    radio_anion > 0 =>
        \A i \in Indices :
            ( /\ MenorIgual(Limite(i), relacion_r_R)
              /\ (i = Ultimo \/ Menor(relacion_r_R, Limite(i + 1))) ) => Par(i)

\* C3: for every pair of input radii, non-positive anion radius and large
\* ratios included, nc_predicho is one of 3, 4, 6, 8, 12 and
\* geometria_predicha is the name stored at the same index.
C3_ParDeLaTabla == \E i \in Indices : Par(i)

C3_Witness ==
    /\ radio_anion < 0
    /\ radio_cation > 0
    /\ Par(1)

\* C4: every ratio >= 1.000 is given NC = 12, without upper bound, and the
\* ratio is never clamped: it stays the exact quotient r / R.
C4_SinCotaSuperior ==
    radio_anion > 0 =>
        /\ RelacionExacta
        /\ MenorIgual(Uno, relacion_r_R) => Par(Ultimo)

C4_Witness ==
    /\ radio_cation = CationMax
    /\ radio_anion = AnionMin
    /\ relacion_r_R = Frac(20, 1)
    /\ Par(Ultimo)

\* C5: when the anion radius is <= 0 the ratio is the sentinel 0 whatever the
\* cation radius, and the prediction is NC = 3, triangular.
C5_Centinela ==
    radio_anion <= 0 => (relacion_r_R = Cero /\ Par(1))

C5_Witness ==
    /\ radio_anion = 0
    /\ radio_cation = 1000
    /\ relacion_r_R = Cero
    /\ Par(1)

\* C6: with the cation radius fixed, a run whose anion radius is not smaller
\* than that of the run before has a ratio and a predicted NC that are not
\* larger.
C6_Monotonia ==
    [][(radio_cation' = radio_cation /\ radio_anion' >= radio_anion) =>
          ( /\ MenorIgual(relacion_r_R', relacion_r_R)
            /\ nc_predicho' <= nc_predicho )]_vars

\* the default cation radius with the anion slider raised from its default to
\* its maximum: the prediction has come down from 8 to 3
C6_Witness ==
    /\ radio_cation = CationInicial
    /\ radio_anion = AnionMax
    /\ nc_predicho = 3

\* C7: R_transicion = r / 0.225 is where the prediction passes between NC = 3
\* and NC = 4: an anion radius just larger (ratio in [0.155, 0.225)) gives
\* NC = 3, an anion radius equal or just smaller (ratio in [0.225, 0.414))
\* gives NC = 4.
C7_Transicion ==
    radio_anion > 0 =>
        /\ ( /\ Menor(R_transicion, Frac(radio_anion, 1))
             /\ MenorIgual(Limite(1), relacion_r_R) ) => nc_predicho = 3
        /\ ( /\ MenorIgual(Frac(radio_anion, 1), R_transicion)
             /\ Menor(relacion_r_R, Limite(3)) ) => nc_predicho = 4

Techo == Frac(TechoEscala, Milesimas)

DeRadiosValidos == (radio_cation > 0 /\ radio_anion > 0) \/ radio_anion <= 0

\* C9: for a ratio from positive radii or the sentinel, posicion_relativa
\* lies in [0, 1], is 1 exactly when ratio >= 1.1 and ratio / 1.1 otherwise,
\* and does not decrease when the ratio does not decrease.
C9_PosicionAcotada ==
    /\ [](DeRadiosValidos =>
            /\ MenorIgual(Cero, posicion_relativa)
            /\ MenorIgual(posicion_relativa, Uno)
            /\ (posicion_relativa = Uno) <=>
                   MenorIgual(Techo, relacion_r_R)
            /\ (posicion_relativa # Uno) =>
                   posicion_relativa[1] * (relacion_r_R[2] * Techo[1])
                       = (relacion_r_R[1] * Techo[2]) * posicion_relativa[2])
    /\ [][(DeRadiosValidos /\ DeRadiosValidos'
              /\ MenorIgual(relacion_r_R, relacion_r_R')) =>
                 MenorIgual(posicion_relativa, posicion_relativa')]_vars

\* a ratio above the ceiling 1.1, shown as a full bar
C9_Witness ==
    /\ radio_cation > 0
    /\ radio_anion > 0
    /\ Menor(Techo, relacion_r_R)
    /\ posicion_relativa = Uno

\* C10: outside Explorar mode nc_elegido = nc_predicho; in the single-viewer
\* branch the only viewer built and shown is that of nc_elegido, drawn with
\* the current r and R, and the highlight is on exactly when
\* nc_elegido = nc_predicho; in Explorar mode an untouched selection is the
\* predicted NC.
C10_VisorDelPredicho ==
    /\ modo # ModoExplorar => nc_elegido = nc_predicho
    /\ modo # ModoComparar =>
          /\ \A k \in NCs : (visores[k] # SinVisor) <=> (k = nc_elegido)
          /\ visores[nc_elegido].nc = nc_elegido
          /\ visores[nc_elegido].R = radio_anion
          /\ visores[nc_elegido].r = radio_cation
          /\ mostrados = {nc_elegido}
          /\ resaltado <=> (nc_elegido = nc_predicho)
    /\ (modo = ModoExplorar /\ seleccion = 0) => nc_elegido = nc_predicho

\* the default mode after the sliders were moved to a triangular prediction
C10_Witness ==
    /\ modo = ModoPredicha
    /\ radio_cation # radio_anion
    /\ radio_cation # CationInicial
    /\ nc_predicho = 3
    /\ nc_elegido = 3
    /\ mostrados = {3}
    /\ visores[3] = [nc |-> 3, R |-> radio_anion, r |-> radio_cation]
    /\ resaltado

\* the ratio lies inside the shaded band f
EnFranja(rel, f) ==
    /\ Menor(Frac(f.y_min, Milesimas), rel)
    /\ Menor(rel, Frac(f.y_max, Milesimas))

Franjas(fs) == {fs[i] : i \in 1..Len(fs)}

\* C11: for every ratio below 1.000, in the full-view plot and in the zoom
\* plot, the band labelled NC k that contains the ratio has k equal to the
\* predicted coordination number.
C11_FranjasComoClasificador ==
    (radio_anion > 0 /\ Menor(relacion_r_R, Uno)) =>
        \A f \in Franjas(FranjasVistaCompleta) \cup Franjas(FranjasZoom(y_max_zoom)) :
            EnFranja(relacion_r_R, f) => f.nc = nc_predicho

Valores(q) == {q[i] : i \in 1..Len(q)}
Lineas(x, e) == {j \in 1..Len(x.atomos) : x.atomos[j].elem = e}

\* C12: the vertices looked up for each nc are exactly nc distinct positions;
\* the XYZ block of every viewer built declares nc + 1 atoms and holds one
\* cation line at the origin and nc anion lines; the bonds drawn are nc for
\* nc in {3, 4, 6, 8} and 6 for nc = 12.
C12_VerticesYEnlaces ==
    /\ \A nc \in NCs : /\ Len(VerticesPorNc[nc]) = nc
                       /\ Cardinality(Valores(VerticesPorNc[nc])) = nc
    /\ \A k \in NCs : visores[k] # SinVisor =>
          LET x == Contenido(visores[k])
          IN  /\ x.n_atoms = k + 1
              /\ Len(x.atomos) = x.n_atoms
              /\ Cardinality(Lineas(x, "Na")) = 1
              /\ \A j \in Lineas(x, "Na") : x.atomos[j].pos = Enteros(<<0, 0, 0>>)
              /\ Cardinality(Lineas(x, "Cl")) = k
              /\ Len(x.enlaces) = IF k = 12 THEN 6 ELSE k

\* compare mode: the five viewers are built, the one of NC 12 with 13 atoms
\* and 6 bonds
C12_Witness ==
    /\ modo = ModoComparar
    /\ \A k \in NCs : visores[k] # SinVisor
    /\ Contenido(visores[12]).n_atoms = 13
    /\ Len(Contenido(visores[12]).atomos) = 13
    /\ Len(Contenido(visores[12]).enlaces) = 6

\* the ratio lies in the interval written on a label
EnIntervalo(rel, t) ==
    IF t.sin_tope
    THEN Menor(Frac(t.inf, Milesimas), rel)
    ELSE /\ MenorIgual(Frac(t.inf, Milesimas), rel)
         /\ MenorIgual(rel, Frac(t.sup, Milesimas))

\* C13: in compare mode the five viewers are built, the viewer of NC k is
\* drawn with R = 1.0 and the representative ratio of k (0.19, 0.30, 0.50,
\* 0.80, 0.90), the main calculation gives that ratio the same NC k, and the
\* interval on its label contains that ratio.
C13_RepresentativosDeSuNC ==
    modo = ModoComparar =>
        \A k \in NCs :
            /\ visores[k] # SinVisor
            /\ visores[k].nc = k
            /\ visores[k].R = R_ANION_FIJO
            /\ Relacion(visores[k].r, visores[k].R)
                   = Frac(r_R_representativo[k], Milesimas)
            /\ CalculoPrincipal(visores[k].r, visores[k].R).nc = k
            /\ EnIntervalo(Relacion(visores[k].r, visores[k].R), IntervaloComparar(k))

====
